---- MODULE Spec2Model ----
(***************************************************************************)
(* Model of main.py: the /full_process caption pipeline with its plan and  *)
(* quota accounting (tables "usuarios" and "usos"), and the Stripe webhook *)
(* that promotes a user to the "criador" plan.                             *)
(*                                                                         *)
(* full_process is a synchronous handler run on a worker thread per        *)
(* request; every store call and every external process call is one step  *)
(* of the worker, so that the steps of concurrent requests interleave.     *)
(***************************************************************************)
EXTENDS Integers, Sequences, FiniteSets, Bags, TLC

\* ---- bounds of the model ----
MaxRequests == 2
MaxMonth == 1

\* the worker threads that run full_process
Workers == {1, 2}

\* ---- inputs ----
\* e-mails are sequences of characters so that '"@" in email' is computed
EmailA == <<"a", "@", "b">>
EmailB == <<"c", "@", "d">>
EmailEmpty == <<>>
EmailNoAt == <<"a", "b">>
ValidEmails == {EmailA, EmailB}
Emails == ValidEmails \cup {EmailEmpty, EmailNoAt}

CheckoutCompleted == "checkout.session.completed"

\* webhook calls: whether construct_event accepts the signature, the event's
\* type and the email of its checkout session
Events ==
    {[sig |-> FALSE, type |-> CheckoutCompleted, email |-> EmailA],
     [sig |-> TRUE, type |-> "invoice.paid", email |-> EmailA],
     [sig |-> TRUE, type |-> CheckoutCompleted, email |-> EmailA],
     [sig |-> TRUE, type |-> CheckoutCompleted, email |-> EmailB]}

\* plan values a "usuarios" row can hold; "vip" is a value limit_for does not know
StoredPlans == {"gratuito", "criador", "pro", "vip"}

\* the calls full_process makes after the quota gate, in program order;
\* "check_srt" is the existence test of burn_subs, "styled" and "plain" its
\* two ffmpeg invocations
StageOrder == <<"save", "extract", "transcribe", "write_srt", "check_srt", "styled", "plain", "add_use">>
Stages == {StageOrder[i] : i \in DOMAIN StageOrder}
NoCalls == [s \in Stages |-> 0]
NoOutcome == [s \in Stages |-> "none"]

Terminal == {"Delivered", "Rejected", "Failed", "Invalid"}

VARIABLES
    supabaseOn,   \* the module-level "supabase" client is not None
    secretOn,     \* STRIPE_WEBHOOK_SECRET is set
    usuarios,     \* table usuarios: bag of rows [email, plano]
    usos,         \* table usos: bag of rows [email, plano, data]; video_nome is a
                  \* fresh uuid that nothing reads back and is left out
    month,        \* the UTC month of the server clock
    pc,           \* per worker: the state of the request it is handling
    email,        \* per worker: the request's email form field
    plan,         \* per worker: local variable plan of full_process
    nextId,       \* number of requests received so far
    inserted,     \* per worker: the request inserted a usuarios row
    calls,        \* per worker: how many times each stage was invoked by the request
    outcome,      \* per worker: how each stage's last invocation ended: "ok" or "fail"
    srt,          \* per worker: the request's .srt file exists on disk
    delivered,    \* per email: number of requests that recorded their use and responded
    whLast,       \* the last webhook call: its event and its response
    planChanged,  \* emails of the rows whose plano an update has changed
    seconds,      \* argument of a call of ts, in units of 1/UnitsPerMs millisecond
    stamp,        \* what that call returned: <<h, m, s, ms>>; <<>> before the call
    segments,     \* argument of a call of write_srt: sequence of [start, end, text]
    document      \* the file that call wrote: [written, blocks]

handlerVars == <<supabaseOn, secretOn, usuarios, usos, month, pc, email, plan, nextId,
          inserted, calls, outcome, srt, delivered, whLast, planChanged>>

captionVars == <<seconds, stamp, segments, document>>

vars == <<handlerVars, captionVars>>

\* ---- helpers ----

\* '"@" in email'
HasAt(e) == \E i \in DOMAIN e : e[i] = "@"

\* the rows of a table selected by .eq("email", e)
RowsOf(table, e) ==
    LET sel == {row \in BagToSet(table) : row.email = e}
    IN  [row \in sel |-> table[row]]

limit_forDefaultFree(p) ==
    CASE p = "criador" -> 30
      [] p = "pro" -> 9999
      [] OTHER -> 3

limit_for(p) ==
    CASE p = "gratuito" -> 3
      [] p = "criador" -> 30
      [] p = "pro" -> 9999
      [] OTHER -> 0

RowsAllTime(e) ==
    LET sel == {row \in BagToSet(usos) : row.email = e}
    IN  [row \in sel |-> usos[row]]

\* the select of count_uses_this_month: rows of the email whose "data" is at
\* or after the first instant of the current month
RowsThisMonth(e) ==
    LET sel == {row \in BagToSet(usos) : row.email = e /\ row.data >= month}
    IN  [row \in sel |-> usos[row]]

count_uses_this_month(e) ==
    IF ~supabaseOn THEN 0 ELSE BagCardinality(RowsThisMonth(e))

OverQuotaStrict(used, limit) == used > limit

\* the quota test of full_process (line 149)
OverQuota(used, limit) == used >= limit

UseRowsNone(e, p) == EmptyBag

UseRowsStoredPlan(e, p) ==
    IF supabaseOn
      THEN SetToBag({[email |-> e, data |-> month,
                      plano |-> (CHOOSE row \in BagToSet(RowsOf(usuarios, e)) : TRUE).plano]})
      ELSE EmptyBag

\* the rows add_use inserts; the store stamps "data" with the current time
UseRows(e, p) ==
    IF supabaseOn THEN SetToBag({[email |-> e, plano |-> p, data |-> month]})
    ELSE EmptyBag

\* the usuarios table after .update({"plano": "criador"}).eq("email", e)
UpgradedTable(e) ==
    LET n == BagCardinality(RowsOf(usuarios, e))
        keep == {row \in BagToSet(usuarios) : row.email # e}
        others == [row \in keep |-> usuarios[row]]
        new == [email |-> e, plano |-> "criador"]
    IN  IF n = 0 THEN usuarios ELSE others (+) [row \in {new} |-> n]

\* ---- initial state ----
\* The store is an external database that outlives the process.  At start-up
\* it is empty, or holds what earlier runs left: EmailA a free user with 2 or
\* 3 uses this month, EmailB a user with a plan this program never assigns.
UserRow(e, p) == [email |-> e, plano |-> p]
UseRow(e, p, d) == [email |-> e, plano |-> p, data |-> d]

StoreWith(uses, planB) ==
    [usuarios |-> SetToBag({UserRow(EmailA, "gratuito"), UserRow(EmailB, planB)}),
     usos |-> [row \in {UseRow(EmailA, "gratuito", 0)} |-> uses],
     uses |-> uses]

InitialStores ==
    {[usuarios |-> EmptyBag, usos |-> EmptyBag, uses |-> 0],
     StoreWith(2, "pro"),
     StoreWith(3, "vip")}

NoStore == [usuarios |-> EmptyBag, usos |-> EmptyBag, uses |-> 0]

NoWebhook == [resp |-> "none", event |-> "none"]

InitHandlers ==
    /\ supabaseOn \in BOOLEAN
    /\ secretOn \in BOOLEAN
    /\ \E st \in (IF supabaseOn /\ secretOn THEN InitialStores ELSE {NoStore}) :
          /\ usuarios = st.usuarios
          /\ usos = st.usos
          /\ delivered = [e \in ValidEmails |-> IF e = EmailA THEN st.uses ELSE 0]
    /\ month = 0
    /\ pc = [w \in Workers |-> "Idle"]
    /\ email = [w \in Workers |-> EmailEmpty]
    /\ plan = [w \in Workers |-> "none"]
    /\ nextId = 0
    /\ inserted = [w \in Workers |-> FALSE]
    /\ calls = [w \in Workers |-> NoCalls]
    /\ outcome = [w \in Workers |-> NoOutcome]
    /\ srt = [w \in Workers |-> FALSE]
    /\ whLast = NoWebhook
    /\ planChanged = {}

NoDocument == [written |-> FALSE, blocks |-> <<>>]

\* the service with no call of ts or write_srt under observation
Init ==
    /\ InitHandlers
    /\ seconds = 0
    /\ stamp = <<>>
    /\ segments = <<>>
    /\ document = NoDocument

\* ---- /full_process ----

\* the worker moves to state next; when the handler returns or raises, its
\* parameter email and its local variable plan are gone, except that the 403
\* of line 150 names the plan in its message
Goto(w, next) ==
    /\ pc' = [pc EXCEPT ![w] = next]
    /\ plan' = IF next \in Terminal \ {"Rejected"} THEN [plan EXCEPT ![w] = "none"] ELSE plan
    /\ email' = IF next \in Terminal THEN [email EXCEPT ![w] = EmailEmpty] ELSE email

ValidEmailNonEmpty(e) == e # <<>>

\* the email test of lines 143-144
ValidEmail(e) == ~(e = <<>> \/ ~HasAt(e))

\* a worker picks up a request, the max-th at most, and validates its email
\* (lines 142-144)
Accept(w, e, max) ==
    /\ pc[w] \in Terminal \cup {"Idle"}
    /\ nextId < max
    /\ nextId' = nextId + 1
    /\ inserted' = [inserted EXCEPT ![w] = FALSE]
    /\ calls' = [calls EXCEPT ![w] = NoCalls]
    /\ outcome' = [outcome EXCEPT ![w] = NoOutcome]
    /\ srt' = [srt EXCEPT ![w] = FALSE]
    /\ pc' = [pc EXCEPT ![w] = IF ValidEmail(e) THEN "Received" ELSE "Invalid"]
    /\ email' = [email EXCEPT ![w] = IF ValidEmail(e) THEN e ELSE EmailEmpty]
    /\ plan' = [plan EXCEPT ![w] = "none"]
    /\ UNCHANGED <<captionVars, supabaseOn, secretOn, usuarios, usos, month, delivered, whLast, planChanged>>

Receive(w, e) == Accept(w, e, MaxRequests)

\* get_or_create_user, the select (lines 114-117, 120); the select has no
\* order, so r.data[0] is any of the rows it matched
SelectUser(w) ==
    /\ pc[w] = "Received"
    /\ IF ~supabaseOn
         THEN /\ plan' = [plan EXCEPT ![w] = "gratuito"]
              /\ pc' = [pc EXCEPT ![w] = "UserResolved"]
         ELSE LET r == RowsOf(usuarios, email[w]) IN
              IF BagCardinality(r) = 0
                THEN /\ pc' = [pc EXCEPT ![w] = "UserAbsent"]
                     /\ UNCHANGED plan
                ELSE /\ \E row \in BagToSet(r) : plan' = [plan EXCEPT ![w] = row.plano]
                     /\ pc' = [pc EXCEPT ![w] = "UserResolved"]
    /\ UNCHANGED <<captionVars, supabaseOn, secretOn, usuarios, usos, month, email, nextId,
                   inserted, calls, outcome, srt, delivered, whLast, planChanged>>

\* the rows get_or_create_user inserts for an absent user (line 118)
NewUserRows(e) == SetToBag({[email |-> e, plano |-> "gratuito"]})

\* get_or_create_user, the insert (lines 118-119)
InsertUser(w) ==
    /\ pc[w] = "UserAbsent"
    /\ usuarios' = usuarios (+) NewUserRows(email[w])
    /\ inserted' = [inserted EXCEPT ![w] = TRUE]
    /\ plan' = [plan EXCEPT ![w] = "gratuito"]
    /\ pc' = [pc EXCEPT ![w] = "UserResolved"]
    /\ UNCHANGED <<captionVars, supabaseOn, secretOn, usos, month, email, nextId,
                   calls, outcome, srt, delivered, whLast, planChanged>>

\* count_uses_this_month, limit_for and the quota gate (lines 147-150)
CheckQuota(w) ==
    /\ pc[w] = "UserResolved"
    /\ LET used == count_uses_this_month(email[w])
           limit == limit_for(plan[w])
       IN  Goto(w, IF OverQuota(used, limit) THEN "Rejected" ELSE "QuotaChecked")
    /\ UNCHANGED <<captionVars, supabaseOn, secretOn, usuarios, usos, month, nextId,
                   inserted, calls, outcome, srt, delivered, whLast, planChanged>>

\* the effect of invoking stage s once, with its result
Invoke(w, s, ok) ==
    /\ calls' = [calls EXCEPT ![w][s] = @ + 1]
    /\ outcome' = [outcome EXCEPT ![w][s] = IF ok THEN "ok" ELSE "fail"]

StageResultIgnored(ok, next) == next

StageResultRetry(ok, next) == IF ok THEN next ELSE "QuotaChecked"

StageResultNoAnswer(ok, next) == IF ok THEN next ELSE "Idle"

\* the state after a stage of the pipeline: the next state, or the stage's
\* exception leaves full_process
StageResult(ok, next) == IF ok THEN next ELSE "Failed"

\* save_temp_file and extract_audio (lines 152-153): the upload is written
\* to the temp directory, then ffmpeg exits zero or check=True raises
ExtractAudio(w, ok) ==
    /\ pc[w] = "QuotaChecked"
    /\ calls' = [calls EXCEPT ![w]["save"] = @ + 1, ![w]["extract"] = @ + 1]
    /\ outcome' = [outcome EXCEPT ![w]["save"] = "ok",
                                  ![w]["extract"] = IF ok THEN "ok" ELSE "fail"]
    /\ Goto(w, StageResult(ok, "AudioExtracted"))
    /\ UNCHANGED <<captionVars, supabaseOn, secretOn, usuarios, usos, month, nextId,
                   inserted, srt, delivered, whLast, planChanged>>

\* transcribe_segments (line 154): the engine returns segments or raises
Transcribe(w, ok) ==
    /\ pc[w] = "AudioExtracted"
    /\ Invoke(w, "transcribe", ok)
    /\ Goto(w, StageResult(ok, "Transcribed"))
    /\ UNCHANGED <<captionVars, supabaseOn, secretOn, usuarios, usos, month, nextId,
                   inserted, srt, delivered, whLast, planChanged>>

\* write_srt (lines 159-160): the file is written, or the write raises
WriteSrt(w, ok) ==
    /\ pc[w] = "Transcribed"
    /\ Invoke(w, "write_srt", ok)
    /\ srt' = [srt EXCEPT ![w] = ok]
    /\ Goto(w, StageResult(ok, "TrackBuilt"))
    /\ UNCHANGED <<captionVars, supabaseOn, secretOn, usuarios, usos, month, nextId,
                   inserted, delivered, whLast, planChanged>>

\* the temp directory is an ordinary directory: something outside the
\* program can remove the .srt file before burn_subs looks for it (the
\* case lines 89-91 guard against)
SrtRemoved(w) ==
    /\ pc[w] = "TrackBuilt"
    /\ srt[w]
    /\ srt' = [srt EXCEPT ![w] = FALSE]
    /\ UNCHANGED <<captionVars, supabaseOn, secretOn, usuarios, usos, month, pc, email, plan, nextId,
                   inserted, calls, outcome, delivered, whLast, planChanged>>

TrackMissingUnchecked(w) == FALSE

\* the test of line 90
TrackMissing(w) == ~srt[w]

AfterStyledNoFallback(ok) == IF ok THEN "Rendered" ELSE "Failed"

\* where burn_subs goes after the styled attempt (lines 95-100)
AfterStyled(ok) == IF ok THEN "Rendered" ELSE "StyledFailed"

\* burn_subs, the existence check and the styled attempt (lines 90-99)
BurnStyled(w, ok) ==
    /\ pc[w] = "TrackBuilt"
    /\ IF TrackMissing(w)
         THEN /\ calls' = [calls EXCEPT ![w]["check_srt"] = @ + 1]
              /\ outcome' = [outcome EXCEPT ![w]["check_srt"] = "fail"]
              /\ Goto(w, "Failed")
         ELSE /\ calls' = [calls EXCEPT ![w]["check_srt"] = @ + 1, ![w]["styled"] = @ + 1]
              /\ outcome' = [outcome EXCEPT ![w]["check_srt"] = "ok",
                                            ![w]["styled"] = IF ok THEN "ok" ELSE "fail"]
              /\ Goto(w, AfterStyled(ok))
    /\ UNCHANGED <<captionVars, supabaseOn, secretOn, usuarios, usos, month, nextId,
                   inserted, srt, delivered, whLast, planChanged>>

\* burn_subs, the plain fallback (lines 100-105)
BurnPlain(w, ok) ==
    /\ pc[w] = "StyledFailed"
    /\ Invoke(w, "plain", ok)
    /\ Goto(w, StageResult(ok, "Rendered"))
    /\ UNCHANGED <<captionVars, supabaseOn, secretOn, usuarios, usos, month, nextId,
                   inserted, srt, delivered, whLast, planChanged>>

\* add_use and the response (lines 163-166)
AddUse(w) ==
    /\ pc[w] = "Rendered"
    /\ Invoke(w, "add_use", TRUE)
    /\ usos' = usos (+) UseRows(email[w], plan[w])
    /\ delivered' = [delivered EXCEPT ![email[w]] = @ + 1]
    /\ Goto(w, "Delivered")
    /\ UNCHANGED <<captionVars, supabaseOn, secretOn, usuarios, month, nextId,
                   inserted, srt, whLast, planChanged>>

\* ---- /stripe/webhook ----

\* billing integration is configured (line 170)
Configured == secretOn /\ supabaseOn

WebhookResponseUnverified(ev) == IF ~Configured THEN "ignored" ELSE "ok"

\* the response of stripe_webhook (lines 170-183)
WebhookResponse(ev) ==
    IF ~Configured THEN "ignored"
    ELSE IF ~ev.sig THEN "400"
    ELSE "ok"

WebhookUpdatesUnverified(ev) == Configured /\ ev.type = CheckoutCompleted

\* whether stripe_webhook reaches the update of line 182
WebhookUpdates(ev) == Configured /\ ev.sig /\ ev.type = CheckoutCompleted

StripeWebhook(ev) ==
    /\ whLast' = [resp |-> WebhookResponse(ev), event |-> ev]
    /\ usuarios' = IF WebhookUpdates(ev) THEN UpgradedTable(ev.email) ELSE usuarios
    /\ planChanged' = IF usuarios' # usuarios THEN planChanged \cup {ev.email} ELSE planChanged
    /\ UNCHANGED <<captionVars, supabaseOn, secretOn, usos, month, pc, email, plan, nextId,
                   inserted, calls, outcome, srt, delivered>>

\* ---- the clock ----

\* datetime.utcnow() moves into the next month (lines 125-126)
Tick ==
    /\ month < MaxMonth
    /\ month' = month + 1
    /\ UNCHANGED <<captionVars, supabaseOn, secretOn, usuarios, usos, pc, email, plan, nextId,
                   inserted, calls, outcome, srt, delivered, whLast, planChanged>>

Next ==
    \/ \E w \in Workers, e \in Emails : Receive(w, e)
    \/ \E w \in Workers : SelectUser(w)
    \/ \E w \in Workers : InsertUser(w)
    \/ \E w \in Workers : CheckQuota(w)
    \/ \E w \in Workers, ok \in BOOLEAN : ExtractAudio(w, ok)
    \/ \E w \in Workers, ok \in BOOLEAN : Transcribe(w, ok)
    \/ \E w \in Workers, ok \in BOOLEAN : WriteSrt(w, ok)
    \/ \E w \in Workers : SrtRemoved(w)
    \/ \E w \in Workers, ok \in BOOLEAN : BurnStyled(w, ok)
    \/ \E w \in Workers, ok \in BOOLEAN : BurnPlain(w, ok)
    \/ \E w \in Workers : AddUse(w)
    \/ \E ev \in Events : StripeWebhook(ev)
    \/ Tick

Spec == Init /\ [][Next]_vars

\* ---- the quota gate raced by requests of one new user ----
\* The store is configured and empty, billing is not; every request is
\* EmailB's and every stage succeeds.

MaxGateRequests == 4

InitGate ==
    /\ Init
    /\ supabaseOn
    /\ ~secretOn
    /\ usuarios = EmptyBag

NextGate ==
    \/ \E w \in Workers : Accept(w, EmailB, MaxGateRequests)
    \/ \E w \in Workers : SelectUser(w)
    \/ \E w \in Workers : InsertUser(w)
    \/ \E w \in Workers : CheckQuota(w)
    \/ \E w \in Workers : ExtractAudio(w, TRUE)
    \/ \E w \in Workers : Transcribe(w, TRUE)
    \/ \E w \in Workers : WriteSrt(w, TRUE)
    \/ \E w \in Workers : BurnStyled(w, TRUE)
    \/ \E w \in Workers : AddUse(w)

SpecGate == InitGate /\ [][NextGate]_vars

----------------------------------------------------------------------------
\* The service under fair scheduling: the server runs every handler on its
\* own worker thread and every store call, subprocess and transcription
\* returns, so a request whose next step stays possible takes it.

MaxLiveRequests == 2

InitLive ==
    /\ Init
    /\ supabaseOn
    /\ secretOn

\* the next step of the request worker w is handling, whatever its result
Step(w) ==
    \/ SelectUser(w)
    \/ InsertUser(w)
    \/ CheckQuota(w)
    \/ \E ok \in BOOLEAN : ExtractAudio(w, ok)
    \/ \E ok \in BOOLEAN : Transcribe(w, ok)
    \/ \E ok \in BOOLEAN : WriteSrt(w, ok)
    \/ \E ok \in BOOLEAN : BurnStyled(w, ok)
    \/ \E ok \in BOOLEAN : BurnPlain(w, ok)
    \/ AddUse(w)

NextLive ==
    \/ \E w \in Workers, e \in Emails : Accept(w, e, MaxLiveRequests)
    \/ \E w \in Workers : Step(w)
    \/ \E w \in Workers : SrtRemoved(w)
    \/ \E ev \in Events : StripeWebhook(ev)

SpecLive == InitLive /\ [][NextLive]_vars /\ \A w \in Workers : WF_vars(Step(w))

----------------------------------------------------------------------------
\* ts and write_srt as functions of their arguments.  Offsets are integers in
\* units of 1/UnitsPerMs millisecond, arithmetic on them is exact.

MaxHours == 1
MaxSegments == 2
UnitsPerMs == 4

UnitsPerSecond == 1000 * UnitsPerMs

tsMinutesUnwrapped(x) ==
    LET h  == x \div (3600 * UnitsPerSecond)
        m  == x \div (60 * UnitsPerSecond)
        sc == (x % (60 * UnitsPerSecond)) \div UnitsPerSecond
        ms == ((x - (x \div UnitsPerSecond) * UnitsPerSecond) * 1000) \div UnitsPerSecond
    IN  <<h, m, sc, ms>>

\* ts(seconds): the four numbers it prints as HH:MM:SS,mmm; int() of a
\* non-negative value drops the fraction
ts(x) ==
    LET h  == x \div (3600 * UnitsPerSecond)
        m  == (x % (3600 * UnitsPerSecond)) \div (60 * UnitsPerSecond)
        sc == (x % (60 * UnitsPerSecond)) \div UnitsPerSecond
        ms == ((x - (x \div UnitsPerSecond) * UnitsPerSecond) * 1000) \div UnitsPerSecond
    IN  <<h, m, sc, ms>>

Whitespace == {" ", "\n"}

\* str.strip(): leading and trailing whitespace removed
Strip(t) ==
    LET solid == {i \in DOMAIN t : t[i] \notin Whitespace}
    IN  IF solid = {} THEN <<>>
        ELSE LET first == CHOOSE i \in solid : \A j \in solid : i <= j
                 last  == CHOOSE i \in solid : \A j \in solid : j <= i
             IN  SubSeq(t, first, last)

\* str.replace("\n", " ")
ReplaceNewlines(t) == [i \in DOMAIN t |-> IF t[i] = "\n" THEN " " ELSE t[i]]

\* the block write_srt writes for segment sg under number i
Block(i, sg) ==
    [index |-> i, start |-> ts(sg.start), end |-> ts(sg.end),
     text |-> ReplaceNewlines(Strip(sg.text))]

write_srtSkipBlank(segs) ==
    LET kept == SelectSeq(segs, LAMBDA sg : Strip(sg.text) # <<>>)
    IN  [i \in 1..Len(kept) |-> Block(i, kept[i])]

\* write_srt(segments, path): one block per segment, numbered by
\* enumerate(segments, start=1)
write_srt(segs) == [i \in 1..Len(segs) |-> Block(i, segs[i])]

\* offsets around the minute, hour, second and millisecond boundaries
Fractions == {0, 1, UnitsPerMs - 1, UnitsPerMs, 500 * UnitsPerMs, UnitsPerSecond - 1}

TimeInputs ==
    {((h * 60 + m) * 60 + sc) * UnitsPerSecond + f :
        h \in 0..MaxHours, m \in {0, 1, 59}, sc \in {0, 1, 59}, f \in Fractions}

Texts == {<<"a">>, <<" ", "a", "\n", "b", " ">>, <<" ">>}

SegmentPool ==
    [start : {0, 3661 * UnitsPerSecond + 500 * UnitsPerMs},
     end   : {3662 * UnitsPerSecond + UnitsPerMs - 1},
     text  : Texts]

SegmentInputs == UNION {[1..n -> SegmentPool] : n \in 0..MaxSegments}

\* a call of ts and a call of write_srt, each with any argument; the
\* handlers are idle, without store and without webhook secret
InitCaption ==
    /\ InitHandlers
    /\ ~supabaseOn
    /\ ~secretOn
    /\ seconds \in TimeInputs
    /\ stamp = <<>>
    /\ segments \in SegmentInputs
    /\ document = NoDocument

CallTs ==
    /\ stamp = <<>>
    /\ stamp' = ts(seconds)
    /\ UNCHANGED <<handlerVars, seconds, segments, document>>

CallWriteSrt ==
    /\ ~document.written
    /\ document' = [written |-> TRUE, blocks |-> write_srt(segments)]
    /\ UNCHANGED <<handlerVars, seconds, stamp, segments>>

NextCaption ==
    \/ CallTs
    \/ CallWriteSrt

SpecCaption == InitCaption /\ [][NextCaption]_vars

\* ---- properties ----

\* the number of usage records of email e dated in month m or later
RECURSIVE SumCopies(_, _)
SumCopies(bag, rows) ==
    IF rows = {} THEN 0
    ELSE LET row == CHOOSE x \in rows : TRUE
         IN  CopiesIn(row, bag) + SumCopies(bag, rows \ {row})

RecordsSince(e, m) ==
    SumCopies(usos, {row \in BagToSet(usos) : row.email = e /\ row.data >= m})

\* the worker's request takes its quota check in this step
Checks(w) == pc[w] = "UserResolved" /\ pc'[w] # "UserResolved"

\* C1: a request with a valid email is rejected for quota if and only if, when
\* it is checked, the usage records of its email in the current month number
\* at least the allowance of the plan resolved for it.
C1_RejectedIffOverAllowance ==
    [][\A w \in Workers :
         Checks(w) =>
           /\ pc'[w] \in {"Rejected", "QuotaChecked"}
           /\ pc'[w] = "Rejected" <=> RecordsSince(email[w], month) >= limit_for(plan[w])]_vars

\* C1 witness: a free user with two earlier uses this month: the third use
\* was delivered and the fourth request is rejected.
C1_Witness ==
    /\ CopiesIn(UserRow(EmailA, "gratuito"), usuarios) = 1
    /\ planChanged = {}
    /\ month = 0
    /\ RecordsSince(EmailA, 0) = 3
    /\ delivered[EmailB] = 0
    /\ \E w, v \in Workers : pc[w] = "Delivered" /\ pc[v] = "Rejected"

\* C2: a request that ends in Rejected has had no side effect: it invoked no
\* stage, wrote no file, recorded no use and inserted no user row.
C2_RejectedNoSideEffects ==
    \A w \in Workers :
      pc[w] = "Rejected" => calls[w] = NoCalls /\ ~srt[w] /\ ~inserted[w]

\* C3: with the store configured, the usage records of an email are as many
\* as its requests that recorded their use; a step either leaves the ledger
\* alone or is a request reaching Delivered that adds one record of its email.
C3_OneRecordPerDelivery ==
    /\ [](supabaseOn => \A e \in ValidEmails : RecordsSince(e, 0) = delivered[e])
    /\ [][\/ usos' = usos
          \/ \E w \in Workers :
               /\ pc[w] = "Rendered" /\ pc'[w] = "Delivered"
               /\ \E p \in StoredPlans, d \in 0..MaxMonth :
                    usos' = usos (+) SetToBag({UseRow(email[w], p, d)})]_vars
    /\ [][\A w \in Workers :
            supabaseOn /\ pc[w] # "Delivered" /\ pc'[w] = "Delivered"
              => BagCardinality(usos') = BagCardinality(usos) + 1]_vars

\* C3 witness: a request of EmailB is delivered and the ledger holds its one record.
C3_Witness ==
    /\ supabaseOn
    /\ delivered[EmailB] = 1
    /\ RecordsSince(EmailB, 0) = 1
    /\ \E w \in Workers : pc[w] = "Delivered"

\* the position of stage s in program order
StageIndex(s) == CHOOSE i \in DOMAIN StageOrder : StageOrder[i] = s

\* a stage whose failure fails the request (a failed styled attempt falls back)
Fatal(s) == s # "styled"

\* C4: when a stage of a request fails, the request is Failed, no later stage
\* has been invoked, no use is recorded and no stage was invoked twice.
C4_FailureAborts ==
    /\ [](\A w \in Workers : \A s \in Stages :
            outcome[w][s] = "fail" /\ Fatal(s) =>
              /\ pc[w] = "Failed"
              /\ \A t \in Stages : StageIndex(t) > StageIndex(s) => calls[w][t] = 0
              /\ \A t \in Stages : calls[w][t] <= 1)
    /\ [][\A w \in Workers :
            /\ pc[w] # "Failed" /\ pc'[w] = "Failed" => usos' = usos
            /\ pc[w] = "Failed" /\ pc'[w] = "Failed" => calls'[w] = calls[w]]_vars

\* C4 witness: the transcription of a request failed.
C4_Witness ==
    \E w \in Workers : pc[w] = "Failed" /\ outcome[w]["transcribe"] = "fail"

\* C5: while no update has changed a user's plan, the user's usage records of
\* the current month exceed the plan's allowance by at most the number of workers - 1.
C5_ExcessBelowWorkers ==
    supabaseOn =>
      \A e \in ValidEmails :
        /\ BagToSet(RowsOf(usuarios, e)) = {} => RecordsSince(e, month) = 0
        /\ e \notin planChanged =>
             \A row \in BagToSet(RowsOf(usuarios, e)) :
               RecordsSince(e, month) <= limit_for(row.plano) + Cardinality(Workers) - 1

\* C5 witness: two requests of a free user both passed the gate at two uses:
\* the month holds four records, one more than the allowance.
C5_Witness ==
    /\ supabaseOn
    /\ planChanged = {}
    /\ CopiesIn(UserRow(EmailA, "gratuito"), usuarios) = 1
    /\ RecordsSince(EmailA, month) = limit_for("gratuito") + 1

\* C6: burn_subs invokes ffmpeg at most twice: the styled attempt first, the
\* plain attempt once and only after a failed styled attempt; the render
\* succeeds if either attempt succeeds and the request fails if both fail.
C6_StyledThenPlain ==
    \A w \in Workers :
      /\ calls[w]["styled"] <= 1 /\ calls[w]["plain"] <= 1
      /\ calls[w]["plain"] = 1 => calls[w]["styled"] = 1 /\ outcome[w]["styled"] = "fail"
      /\ outcome[w]["styled"] = "fail" => pc[w] = "StyledFailed" \/ calls[w]["plain"] = 1
      /\ outcome[w]["styled"] = "ok" \/ outcome[w]["plain"] = "ok"
           => pc[w] \in {"Rendered", "Delivered"}
      /\ outcome[w]["styled"] = "fail" /\ outcome[w]["plain"] = "fail" => pc[w] = "Failed"

\* C6 witness: the styled attempt failed and the plain attempt rendered the video.
C6_Witness ==
    \E w \in Workers :
      pc[w] = "Rendered" /\ outcome[w]["styled"] = "fail" /\ outcome[w]["plain"] = "ok"

\* C7: when the .srt file does not exist as burn_subs is called, the request
\* fails in that step and ffmpeg has been invoked by neither attempt.
C7_MissingTrackNoTranscoder ==
    [][\A w \in Workers :
         pc[w] = "TrackBuilt" /\ ~srt[w] /\ pc'[w] # "TrackBuilt" =>
           /\ pc'[w] = "Failed"
           /\ calls'[w]["styled"] = 0 /\ calls'[w]["plain"] = 0]_vars

\* C7 witness: the track was written, removed, and burn_subs found it missing.
C7_Witness ==
    \E w \in Workers :
      /\ pc[w] = "Failed" /\ ~srt[w]
      /\ outcome[w]["write_srt"] = "ok" /\ outcome[w]["check_srt"] = "fail"

\* the webhook's last call was made with billing configured, a good signature
\* and an event of the given type
Verified(wh, type) ==
    wh.resp # "none" /\ secretOn /\ supabaseOn /\ wh.event.sig /\ wh.event.type = type

\* C8 as claimed: unconfigured billing or a verified event of another type is
\* answered "ignored", a bad signature 400, a verified checkout "ok".
C8_OtherEventsIgnored ==
    whLast.resp # "none" =>
      whLast.resp = IF ~(secretOn /\ supabaseOn) THEN "ignored"
                    ELSE IF ~whLast.event.sig THEN "400"
                    ELSE IF whLast.event.type # CheckoutCompleted THEN "ignored"
                    ELSE "ok"

\* C8 amended: unconfigured billing is answered "ignored", a bad signature 400
\* and every verified event "ok"; a verified checkout sets every row of its
\* email to "criador", any other call leaves the users alone.
C8_VerifiedEventsOk ==
    /\ [](whLast.resp # "none" =>
            whLast.resp = IF ~(secretOn /\ supabaseOn) THEN "ignored"
                          ELSE IF ~whLast.event.sig THEN "400"
                          ELSE "ok")
    /\ [][whLast' # whLast =>
            IF Verified(whLast', CheckoutCompleted)
              THEN /\ \A row \in BagToSet(usuarios') :
                        row.email = whLast'.event.email => row.plano = "criador"
                   /\ \A e \in ValidEmails :
                        BagCardinality(RowsOf(usuarios', e)) = BagCardinality(RowsOf(usuarios, e))
              ELSE usuarios' = usuarios]_vars

\* C8 witness: a verified event of another type was answered "ok".
C8_Witness == Verified(whLast, "invoice.paid") /\ whLast.resp = "ok"

\* the plans get_or_create_user can return for e from a table
ResolvesTo(table, e) ==
    IF BagToSet(RowsOf(table, e)) = {} THEN {"gratuito"}
    ELSE {row.plano : row \in BagToSet(RowsOf(table, e))}

\* C9: after a verified checkout event for an email, whatever the store held
\* for it, the plan resolved for that email is "criador".
C9_CheckoutMakesCreator ==
    [][whLast' # whLast /\ Verified(whLast', CheckoutCompleted)
         => ResolvesTo(usuarios', whLast'.event.email) = {"criador"}]_vars

\* C10: no step lowers the allowance of a user's plan.
C10_AllowanceNeverDecreases ==
    [][\A e \in ValidEmails :
         BagToSet(RowsOf(usuarios, e)) # {} =>
           \A new \in BagToSet(RowsOf(usuarios', e)) :
             \E old \in BagToSet(RowsOf(usuarios, e)) :
               limit_for(old.plano) <= limit_for(new.plano)]_vars

\* every row a table held is still in the next table
RowsKept(old, new) == \A row \in BagToSet(old) : CopiesIn(row, new) >= CopiesIn(row, old)

\* C11: the user store changes only by a request inserting one free row, all
\* other rows kept, or by a verified checkout event changing the plan of the
\* rows of its email and nothing else; the ledger changes in no webhook call.
C11_WebhookFrame ==
    [][/\ usuarios' # usuarios =>
            IF pc' # pc
              THEN /\ RowsKept(usuarios, usuarios')
                   /\ BagCardinality(usuarios') = BagCardinality(usuarios) + 1
              ELSE /\ Verified(whLast', CheckoutCompleted)
                   /\ usos' = usos
                   /\ \A e \in ValidEmails :
                        /\ BagCardinality(RowsOf(usuarios', e)) = BagCardinality(RowsOf(usuarios, e))
                        /\ e # whLast'.event.email => RowsOf(usuarios', e) = RowsOf(usuarios, e)
       /\ usos' # usos => pc' # pc]_vars

\* C11 witness: a checkout for EmailB made its row "criador" and EmailA's row
\* is as it was.
C11_Witness ==
    /\ Verified(whLast, CheckoutCompleted)
    /\ whLast.event.email = EmailB
    /\ planChanged = {EmailB}
    /\ CopiesIn(UserRow(EmailB, "criador"), usuarios) = 1
    /\ CopiesIn(UserRow(EmailA, "gratuito"), usuarios) = 1

\* C12: a request is handled past the validation only with a non-empty email
\* that contains "@"; a request answered 400 has invoked nothing, written no
\* file and inserted no row, and taking a request changes neither table.
C12_InvalidEmailNoEffect ==
    /\ [](\A w \in Workers :
            /\ pc[w] \notin Terminal \cup {"Idle"} =>
                 email[w] # <<>> /\ \E i \in DOMAIN email[w] : email[w][i] = "@"
            /\ pc[w] = "Invalid" => calls[w] = NoCalls /\ ~inserted[w] /\ ~srt[w])
    /\ [][nextId' # nextId => usuarios' = usuarios /\ usos' = usos]_vars

\* C12 witness: a request was answered 400.
C12_Witness == \E w \in Workers : pc[w] = "Invalid" /\ nextId > 0

\* C13: the allowances are 3, 30 and 9999 for the three tiers and 0 for any
\* other plan, and a request whose resolved plan is no tier is rejected.
C13_UnknownPlanRejected ==
    /\ [](/\ limit_for("gratuito") = 3 /\ limit_for("criador") = 30 /\ limit_for("pro") = 9999
          /\ \A p \in StoredPlans \ {"gratuito", "criador", "pro"} : limit_for(p) = 0)
    /\ [][\A w \in Workers :
            Checks(w) /\ plan[w] \notin {"gratuito", "criador", "pro"} => pc'[w] = "Rejected"]_vars

\* C13 witness: a request of the user stored with plan "vip" was rejected.
C13_Witness == \E w \in Workers : pc[w] = "Rejected" /\ plan[w] = "vip"

\* C14: the count of an email's uses this month is the number of its records
\* dated in the current month or later; when the month changes the ledger
\* is unchanged and every count is 0.
C14_CountIsThisMonthsRecords ==
    /\ [](supabaseOn => \A e \in ValidEmails : count_uses_this_month(e) = RecordsSince(e, month))
    /\ [][month' # month =>
            /\ usos' = usos
            /\ \A e \in ValidEmails : (count_uses_this_month(e))' = 0]_vars

\* C14 witness: EmailA's records of last month are there and its count is 0.
C14_Witness ==
    /\ supabaseOn
    /\ month = 1
    /\ RecordsSince(EmailA, 0) >= 2
    /\ count_uses_this_month(EmailA) = 0

\* the state of the request's state machine a program location belongs to:
\* the user lookup is part of Received, the fallback part of TrackBuilt
Phase(p) ==
    CASE p \in {"Received", "UserAbsent", "UserResolved"} -> "Received"
      [] p \in {"TrackBuilt", "StyledFailed"} -> "TrackBuilt"
      [] OTHER -> p

PhaseOrder ==
    <<"Received", "QuotaChecked", "AudioExtracted", "Transcribed", "TrackBuilt",
      "Rendered", "Delivered">>

Rank(p) == CHOOSE i \in DOMAIN PhaseOrder : PhaseOrder[i] = Phase(p)

\* C15: a request moves through Received, QuotaChecked, AudioExtracted,
\* Transcribed, TrackBuilt, Rendered, Delivered one state at a time; it
\* leaves the sequence only to Rejected, from Received, or to Failed, from a
\* stage; a worker whose request is over only takes a new request.
C15_StrictSequence ==
    [][\A w \in Workers :
         pc'[w] # pc[w] =>
           IF pc[w] \in Terminal \cup {"Idle"}
             THEN nextId' = nextId + 1 /\ pc'[w] \in {"Received", "Invalid"}
             ELSE \/ Phase(pc'[w]) = Phase(pc[w])
                  \/ /\ pc'[w] \notin {"Rejected", "Failed"}
                     /\ Rank(pc'[w]) = Rank(pc[w]) + 1
                  \/ pc'[w] = "Rejected" /\ Phase(pc[w]) = "Received"
                  \/ /\ pc'[w] = "Failed"
                     /\ Phase(pc[w]) \in {"QuotaChecked", "AudioExtracted", "Transcribed", "TrackBuilt"}]_vars

\* C15 witness: a request went through every state to Delivered.
C15_Witness ==
    \E w \in Workers :
      /\ pc[w] = "Delivered"
      /\ \A s \in Stages \ {"plain"} : calls[w][s] = 1

\* C18: the user store holds at most one row per email.
C18_OneUserRowPerEmail ==
    \A e \in ValidEmails : BagCardinality(RowsOf(usuarios, e)) <= 1

\* C19: the record a request appends carries the plan the request resolved,
\* the request was admitted under that plan's allowance, and the plan it
\* holds does not change between its check and its append.
C19_RecordCarriesCheckedPlan ==
    [][\A w \in Workers :
         /\ Checks(w) /\ pc'[w] = "QuotaChecked" =>
              plan'[w] = plan[w] /\ RecordsSince(email[w], month) < limit_for(plan[w])
         /\ (Phase(pc[w]) \in {"QuotaChecked", "AudioExtracted", "Transcribed", "TrackBuilt"}
               /\ pc'[w] \notin Terminal) =>
              plan'[w] = plan[w]
         /\ supabaseOn /\ pc[w] = "Rendered" /\ pc'[w] = "Delivered" =>
              usos' = usos (+) SetToBag({UseRow(email[w], plan[w], month)})]_vars

\* C19 witness: EmailB's record of month 0 says "criador", so the upgrade came
\* in month 0; its record of month 1 says "gratuito", the plan its request
\* had read before the upgrade.
C19_Witness ==
    /\ CopiesIn(UseRow(EmailB, "criador", 0), usos) = 1
    /\ CopiesIn(UseRow(EmailB, "gratuito", 1), usos) = 1
    /\ CopiesIn(UserRow(EmailB, "gratuito"), usuarios) = 0

\* the fraction of a second, in units, rounded to the nearest millisecond
RoundMs(f) == (2 * f + UnitsPerMs) \div (2 * UnitsPerMs)

\* the fraction of a second, in units, cut down to whole milliseconds
FloorMs(f) == f \div UnitsPerMs

\* C16 as stated: ts returns h = floor(seconds/3600), m = floor((seconds mod
\* 3600)/60), s = floor(seconds mod 60) and ms = the fraction of the second
\* rounded to the nearest millisecond.
C16_MsRounded ==
    stamp # <<>> =>
      /\ stamp[1] = seconds \div (3600 * UnitsPerSecond)
      /\ stamp[2] = (seconds % (3600 * UnitsPerSecond)) \div (60 * UnitsPerSecond)
      /\ stamp[3] = (seconds % (60 * UnitsPerSecond)) \div UnitsPerSecond
      /\ stamp[4] = RoundMs(seconds % UnitsPerSecond)

\* C16 amended: the same h, m and s, and ms = the fraction of the second cut
\* down to whole milliseconds, so m < 60, s < 60, ms < 1000 and the fields
\* add up to the offset's whole milliseconds.
C16_MsTruncated ==
    stamp # <<>> =>
      /\ stamp[1] = seconds \div (3600 * UnitsPerSecond)
      /\ stamp[2] = (seconds % (3600 * UnitsPerSecond)) \div (60 * UnitsPerSecond)
      /\ stamp[3] = (seconds % (60 * UnitsPerSecond)) \div UnitsPerSecond
      /\ stamp[4] = FloorMs(seconds % UnitsPerSecond)
      /\ stamp[2] < 60 /\ stamp[3] < 60 /\ stamp[4] < 1000
      /\ ((stamp[1] * 60 + stamp[2]) * 60 + stamp[3]) * 1000 + stamp[4] = seconds \div UnitsPerMs

\* C16 witness: ts was called on an offset past one hour whose fraction is
\* 3/4 of a millisecond or more short of the next one, and returned ms = 0.
C16_Witness ==
    /\ stamp # <<>>
    /\ stamp[1] = 1
    /\ stamp[4] = 0
    /\ seconds % UnitsPerSecond = UnitsPerMs - 1

\* C17: write_srt writes one block per segment, the k-th block numbered k
\* and made of the k-th segment, and an empty document for no segments.
C17_OneBlockPerSegment ==
    document.written =>
      /\ Len(document.blocks) = Len(segments)
      /\ \A k \in 1..Len(segments) :
           /\ document.blocks[k].index = k
           /\ document.blocks[k].start = ts(segments[k].start)
           /\ document.blocks[k].end = ts(segments[k].end)
           /\ document.blocks[k].text = ReplaceNewlines(Strip(segments[k].text))
      /\ segments = <<>> => document.blocks = <<>>

\* C17 witness: the document of two segments given latest first, the second
\* with blank text, has both blocks in that order.
C17_Witness ==
    /\ document.written
    /\ Len(segments) = 2
    /\ segments[1].start > segments[2].start
    /\ Strip(segments[2].text) = <<>>
    /\ document.blocks[1].index = 1
    /\ document.blocks[2].index = 2
    /\ document.blocks[1].start[1] = 1
    /\ document.blocks[2].start[1] = 0

\* C20: a request that is being handled always has a next step of its own,
\* whatever the other worker is doing, and under fair scheduling it ends
\* Delivered, Rejected or Failed.
C20_EveryRequestEnds ==
    /\ [](\A w \in Workers : pc[w] \notin Terminal \cup {"Idle"} => ENABLED Step(w))
    /\ \A w \in Workers :
         (pc[w] \notin Terminal \cup {"Idle"}) ~> (pc[w] \in {"Delivered", "Rejected", "Failed"})

\* C20 witness: with both requests received, one ended Delivered and the
\* other Rejected.
C20_Witness ==
    /\ nextId = MaxLiveRequests
    /\ pc[1] = "Delivered"
    /\ pc[2] = "Rejected"

====
